---- MODULE Spec2Model ----
(***************************************************************************)
(* train_speechT5.py: the batch collator (CustomDataCollator), the audio   *)
(* loader (load_audio), the dataset builder (prepare_dataset) and the way  *)
(* main wires them.                                                        *)
(*                                                                         *)
(* Python lists, numpy arrays and tensors are sequences.  A waveform       *)
(* sample is an integer standing for a finite float amplitude; a log-mel   *)
(* value is abstracted to one representative (DbValue), since only the     *)
(* shape of the spectrogram is decided by this code.  An exception leaving *)
(* a function is the result's status.                                      *)
(***************************************************************************)
EXTENDS Integers, Sequences, FiniteSets, TLC

VARIABLES
  self,      \* the collator object: [processor, target_length]
  dataset,   \* the feature items the caller holds (list of dicts)
  call,      \* the last __call__: its batch, return value and local values
  memo,      \* the first __call__ on this collator: its batch and return value
  df,        \* the metadata table: rows of an audio file and a text
  idx,       \* prepare_dataset: the number of rows the loop has been through
  processed_data,  \* prepare_dataset: the items appended so far
  pc,        \* prepare_dataset: "loop", "returned", or the exception it raised
  loaded,    \* the last load_audio call: its file and result
  fit        \* the training collator's last batch: per waveform, its samples,
             \* whether it was cut, and the pad width handed to np.pad

vars == <<self, dataset, call, memo, df, idx, processed_data, pc, loaded, fit>>

\* ---------------------------------------------------------------- bounds
MaxT == 2          \* target_length ranges over 1..MaxT
MaxTok == 3        \* token sequences have 1..MaxTok ids
MaxRows == 3       \* the metadata table has 0..MaxRows rows
PadTokenIds == {0, 1}   \* values of processor.tokenizer.pad_token_id

\* ------------------------------------------------------ program constants
hop_length == 512
per_device_train_batch_size == 2
DefaultTargetLength == 512   \* __init__(self, processor, target_length=512)
DefaultMaxDuration == 10     \* load_audio(..., max_duration=10.0), in seconds
sr == 16000
tokenizer_max_length == 256
n_mels == 80
DbValue == -1      \* a log-mel value (power_to_db relative to the maximum: <= 0)

\* ----------------------------------------------------------------- helpers
Max(S) == CHOOSE x \in S : \A y \in S : y <= x

Zeros(n) == [i \in 1..n |-> 0]

\* lst * n of Python for a one-element list: [] when n <= 0
Repeat(x, n) == [i \in 1..n |-> x]

\* torch.tensor / np.stack accept a list of rows only when all rows agree in length
IsRect(rows) == \A i, j \in 1..Len(rows) : Len(rows[i]) = Len(rows[j])

\* ------------------------------------------------- CustomDataCollator.__call__
\* (mutant) the first item's length instead of the batch's maximum
max_length_first(input_ids) == Len(input_ids[1])

\* line 20: max over the batch of len(ids)
max_length(input_ids) == Max({Len(input_ids[i]) : i \in 1..Len(input_ids)})

\* (mutant) padding on the left
PadInputIds_left(ids, maxlen, pad) == Repeat(pad, maxlen - Len(ids)) \o ids

\* line 26
PadInputIds(ids, maxlen, pad) == ids \o Repeat(pad, maxlen - Len(ids))

\* line 27
PadMask(mask, ids, maxlen) == mask \o Repeat(0, maxlen - Len(ids))

\* line 40
target_audio_length(T) == T * hop_length

\* line 41: the truncation branch is taken
Truncates(n, T) == n > target_audio_length(T)

\* line 44: the pad width handed to np.pad
PadWidth(n, T) == target_audio_length(T) - n

\* (mutant) the cut keeps the last samples instead of the first
FixAudio_tail(audio, T) ==
  IF Truncates(Len(audio), T)
    THEN SubSeq(audio, Len(audio) - target_audio_length(T) + 1, Len(audio))
    ELSE audio \o Zeros(PadWidth(Len(audio), T))

\* lines 41-44
FixAudio(audio, T) ==
  IF Truncates(Len(audio), T)
    THEN SubSeq(audio, 1, target_audio_length(T))
    ELSE audio \o Zeros(PadWidth(Len(audio), T))

\* (mutant) framing without centering (center=False, n_fft=2048)
MelFrames_uncentered(n) == IF n < 2048 THEN 0 ELSE 1 + ((n - 2048) \div hop_length)

\* lines 47-56: the number of frames of a centered STFT with hop 512
MelFrames(n) == 1 + (n \div hop_length)

\* lines 47-61: the transposed log-mel spectrogram, frames x 80
MelSpec(audio) == [t \in 1..MelFrames(Len(audio)) |-> [m \in 1..n_mels |-> DbValue]]

\* lines 64-68: which branch of the final length fix runs
FrameBranch(frames, T) ==
  IF frames > T THEN "truncate" ELSE IF frames < T THEN "pad" ELSE "keep"

\* (mutant) the zero-row padding only, no truncation
FixFrames_padonly(mel, T) ==
  IF Len(mel) < T
    THEN mel \o [t \in 1..(T - Len(mel)) |-> [m \in 1..n_mels |-> 0]]
    ELSE mel

\* lines 64-68
FixFrames(mel, T) ==
  IF Len(mel) > T THEN SubSeq(mel, 1, T)
  ELSE IF Len(mel) < T
    THEN mel \o [t \in 1..(T - Len(mel)) |-> [m \in 1..n_mels |-> 0]]
    ELSE mel

\* lines 14-79: the call on the list `features` of items; the result holds the
\* returned dict (status "ok") or the exception raised, and the local values
Call(slf, features) ==
  LET B == Len(features)
      T == slf.target_length
      pad == slf.processor.pad_token_id
      input_ids == [i \in 1..B |-> features[i].input_ids]
      attention_mask == [i \in 1..B |-> features[i].attention_mask]
  IN IF B = 0
       THEN [status |-> "ValueError", at |-> "max"]
       ELSE
         LET ml == max_length(input_ids)
             padded_input_ids == [i \in 1..B |-> PadInputIds(input_ids[i], ml, pad)]
             padded_attention_mask ==
               [i \in 1..B |-> PadMask(attention_mask[i], input_ids[i], ml)]
         IN IF ~IsRect(padded_input_ids) \/ ~IsRect(padded_attention_mask)
              THEN [status |-> "ValueError", at |-> "torch.tensor"]
              ELSE
                LET audio == [i \in 1..B |-> FixAudio(features[i].labels, T)]
                    mels == [i \in 1..B |-> MelSpec(audio[i])]
                    mel_specs == [i \in 1..B |-> FixFrames(mels[i], T)]
                IN IF ~IsRect(mel_specs)
                     THEN [status |-> "ValueError", at |-> "np.stack"]
                     ELSE [status |-> "ok",
                           input_ids |-> padded_input_ids,
                           attention_mask |-> padded_attention_mask,
                           labels |-> mel_specs,
                           audio |-> audio,
                           frames |-> [i \in 1..B |-> Len(mels[i])],
                           branch |-> [i \in 1..B |-> FrameBranch(Len(mels[i]), T)]]

\* (mutant) the padding appended to the items' own lists (ids += ...)
Effects_inplace(slf, features) ==
  [self |-> slf,
   features |->
     [i \in 1..Len(features) |->
        LET ml == Max({Len(features[j].input_ids) : j \in 1..Len(features)})
            n == ml - Len(features[i].input_ids)
        IN [features[i] EXCEPT
              !.input_ids = @ \o Repeat(slf.processor.pad_token_id, n),
              !.attention_mask = @ \o Repeat(0, n)]]]

\* lines 14-79: what the call leaves behind in the objects it was handed.  No
\* statement assigns through self or writes into an item: ids + [...] and
\* mask + [...] build new lists, np.array copies the labels, and the slice of
\* audio is rebound, never written
Effects(slf, features) == [self |-> slf, features |-> features]

\* ------------------------------------------------------------------ inputs
Tok(i) == IF i % 3 = 1 THEN 5 ELSE IF i % 3 = 2 THEN 1 ELSE 0
Ids(k) == [i \in 1..k |-> Tok(i)]
Wave(n) == [i \in 1..n |-> (i % 11) - 5]
Lens(T) == {0, T * hop_length - 1, T * hop_length, T * hop_length + 1,
            2 * T * hop_length + 1}

Item(k, d, n) ==
  [input_ids |-> Ids(k), attention_mask |-> Repeat(1, k + d), labels |-> Wave(n)]

\* the lists a caller may hand to __call__: up to a training batch of the items
Batches == UNION { [1..b -> 1..Len(dataset)] : b \in 0..per_device_train_batch_size }

NoCall == [kind |-> "none"]

\* waveforms of every length around the target, under two short texts
InitAudio ==
  /\ \E T \in 1..MaxT : self = [processor |-> [pad_token_id |-> 1], target_length |-> T]
  /\ \E n1, n2 \in Lens(self.target_length) :
       dataset = <<Item(1, 0, n1), Item(2, 0, n2)>>

\* texts of every length, with masks as long as the ids or one longer
InitText ==
  /\ \E p \in PadTokenIds : self = [processor |-> [pad_token_id |-> p], target_length |-> 1]
  /\ \E k1, k2 \in 1..MaxTok, d1, d2 \in {0, 1} :
       dataset = <<Item(k1, d1, 1), Item(k2, d2, hop_length + 1)>>

Init ==
  /\ InitAudio \/ InitText
  /\ call = NoCall
  /\ memo = NoCall
  /\ df = <<>> /\ idx = 0 /\ processed_data = <<>> /\ pc = "idle"
  /\ loaded = NoCall /\ fit = <<>>

\* one __call__ of the collator on a list of the caller's items
Collate ==
  \E batch \in Batches :
    LET features == [i \in 1..Len(batch) |-> dataset[batch[i]]]
        ret == Call(self, features)
        eff == Effects(self, features)
    IN /\ call' = [kind |-> "call", batch |-> batch, features |-> features,
                   ret |-> ret, again |-> memo # NoCall]
       /\ memo' = IF memo = NoCall
                    THEN [kind |-> "call", batch |-> batch, ret |-> ret]
                    ELSE memo
       /\ self' = eff.self
       /\ dataset' = [j \in 1..Len(dataset) |->
                        IF \E i \in 1..Len(batch) : batch[i] = j
                          THEN eff.features[CHOOSE i \in 1..Len(batch) : batch[i] = j]
                          ELSE dataset[j]]
       /\ UNCHANGED <<df, idx, processed_data, pc, loaded, fit>>

Next == Collate

Spec == Init /\ [][Next]_vars

\* ------------------------------------------------------------- load_audio
None == [kind |-> "None"]
Raise == [kind |-> "raise"]
Array(n) == [kind |-> "array", n |-> n]

Min(a, b) == IF a <= b THEN a ELSE b

\* (mutant) the duration limit not handed to librosa.load
librosa_load_whole(f, max_duration) ==
  IF ~f.decodes THEN Raise ELSE Array(f.samples)

\* line 90: librosa.load(full_path, sr=16000, duration=max_duration) reads at
\* most max_duration seconds at 16000 samples a second, or raises
librosa_load(f, max_duration) ==
  IF ~f.decodes THEN Raise ELSE Array(Min(f.samples, max_duration * sr))

\* line 92: librosa.util.normalize raises on an array that is not finite
normalize(f, arr) == IF ~f.finite THEN Raise ELSE arr

\* (mutant) no except clause: the exception leaves load_audio
Try_reraise(r) == r

\* lines 88, 97-99: try ... except Exception: return None
Try(r) == IF r.kind = "raise" THEN None ELSE r

\* lines 81-99; a waveform is given by its number of samples
load_audio(f, max_duration) ==
  IF ~f.exists
    THEN None
    ELSE Try(LET speech_array == librosa_load(f, max_duration)
             IN IF speech_array.kind = "raise" THEN Raise
                ELSE IF speech_array.n > 0
                  THEN normalize(f, speech_array)
                  ELSE None)

\* -------------------------------------------------------- prepare_dataset
EOS == 2

\* lines 110-116: processor(text=..., max_length=256, truncation=True)
Tokenize(text) ==
  LET ids == text \o <<EOS>>
  IN SubSeq(ids, 1, Min(Len(ids), tokenizer_max_length))

\* lines 118-123
ProcessedItem(row, audio) ==
  LET ids == Tokenize(row.Text)
  IN [input_ids |-> ids, attention_mask |-> Repeat(1, Len(ids)),
      n_samples |-> audio.n, text |-> row.Text]

\* (mutant) the list rebuilt instead of appended to
AfterRow_rebuilt(data, row, audio) ==
  IF audio.kind # "None" THEN <<ProcessedItem(row, audio)>> ELSE data

\* lines 108-125: processed_data after the row
AfterRow(data, row, audio) ==
  IF audio.kind # "None" THEN Append(data, ProcessedItem(row, audio)) ELSE data

\* (mutant) the empty list returned as a dataset
EndOfLoop_noraise(data) == "returned"

\* lines 130-134
EndOfLoop(data) == IF data = <<>> THEN "ValueError" ELSE "returned"

\* ------------------------------------------------------------------ inputs
File(e, d, n, fin) == [exists |-> e, decodes |-> d, samples |-> n, finite |-> fin]

\* a missing file, one that does not decode, one that is not finite, and files
\* holding 0, 1, ten seconds, ten seconds and a sample, and 512*512+1 samples
Files ==
  {File(FALSE, TRUE, 1, TRUE), File(TRUE, FALSE, 1, TRUE), File(TRUE, TRUE, 1, FALSE)}
  \cup {File(TRUE, TRUE, n, TRUE) :
          n \in {0, 1, DefaultMaxDuration * sr, DefaultMaxDuration * sr + 1,
                 DefaultTargetLength * hop_length + 1}}

Tables ==
  UNION { [1..n -> Files] : n \in 0..MaxRows }

\* main, lines 153-158 and 183: the table is read, the collator built with its
\* defaults, and prepare_dataset entered
PipelineInit ==
  /\ \E files \in Tables :
       df = [i \in 1..Len(files) |-> [file |-> files[i], Text |-> <<64 + i>>]]
  /\ self = [processor |-> [pad_token_id |-> 1], target_length |-> DefaultTargetLength]
  /\ dataset = <<>>
  /\ call = NoCall /\ memo = NoCall
  /\ idx = 0 /\ processed_data = <<>> /\ pc = "loop"
  /\ loaded = NoCall /\ fit = <<>>

\* lines 106-128: one pass of the loop over the rows
ProcessRow ==
  /\ pc = "loop" /\ idx < Len(df)
  /\ LET row == df[idx + 1]
         audio == load_audio(row.file, DefaultMaxDuration)
     IN /\ loaded' = [kind |-> "call", file |-> row.file, result |-> audio]
        /\ IF audio.kind = "raise"
             THEN /\ pc' = "Exception"
                  /\ UNCHANGED processed_data
             ELSE /\ pc' = pc
                  /\ processed_data' = AfterRow(processed_data, row, audio)
  /\ idx' = idx + 1
  /\ UNCHANGED <<self, dataset, call, memo, df, fit>>

\* lines 130-134: after the loop
Finish ==
  /\ pc = "loop" /\ idx = Len(df)
  /\ pc' = EndOfLoop(processed_data)
  /\ dataset' = IF pc' = "returned" THEN processed_data ELSE dataset
  /\ UNCHANGED <<self, call, memo, df, idx, processed_data, loaded, fit>>

\* lines 179-188 with 38-44: the trainer hands the collator a batch of the
\* dataset, and the collator brings each waveform to its target length
TrainBatch ==
  /\ pc = "returned"
  /\ \E b \in 1..per_device_train_batch_size :
       \E batch \in [1..b -> 1..Len(dataset)] :
         /\ \A i, j \in 1..b : i # j => batch[i] # batch[j]
         /\ fit' = [i \in 1..b |->
                      LET n == dataset[batch[i]].n_samples
                      IN [n_samples |-> n,
                          target |-> target_audio_length(self.target_length),
                          truncated |-> Truncates(n, self.target_length),
                          pad_width |-> IF Truncates(n, self.target_length) THEN 0
                                        ELSE PadWidth(n, self.target_length)]]
  /\ UNCHANGED <<self, dataset, call, memo, df, idx, processed_data, pc, loaded>>

PipelineNext == ProcessRow \/ Finish \/ TrainBatch

PipelineSpec == PipelineInit /\ [][PipelineNext]_vars

\* ------------------------------------------------------------------ claims
Called == call.kind = "call"
Returned == Called /\ call.ret.status = "ok"
B == Len(call.batch)
T == self.target_length
\* every item's attention_mask is as long as its input_ids
Aligned ==
  \A i \in 1..B : Len(call.features[i].attention_mask) = Len(call.features[i].input_ids)
\* the largest input_ids length of the batch
MaxLen == Max({Len(call.features[i].input_ids) : i \in 1..B})

\* C1: a call on a non-empty batch (with aligned masks) returns, and whenever a
\* call returns, labels has shape (batch size, target_length, 80), whatever the
\* lengths of the raw waveforms
C1_LabelsShape ==
  /\ (Called /\ B > 0 /\ Aligned) => Returned
  /\ Returned =>
       /\ Len(call.ret.labels) = B
       /\ \A i \in 1..B :
            /\ Len(call.ret.labels[i]) = T
            /\ \A t \in 1..T : Len(call.ret.labels[i][t]) = 80

C1_Witness ==
  /\ Returned /\ B = 2
  /\ Len(call.features[1].labels) = 0
  /\ Len(call.features[2].labels) > T * 512

\* C2: on a non-empty batch with aligned masks the call returns, and every row
\* of input_ids and of attention_mask has length max_len, the largest
\* input_ids length of the batch
C2_TextShape ==
  (Called /\ B > 0 /\ Aligned) =>
    /\ Returned
    /\ Len(call.ret.input_ids) = B
    /\ Len(call.ret.attention_mask) = B
    /\ \A i \in 1..B :
         /\ Len(call.ret.input_ids[i]) = MaxLen
         /\ Len(call.ret.attention_mask[i]) = MaxLen

C2_Witness ==
  /\ Returned /\ B = 2 /\ Aligned
  /\ Len(call.features[1].input_ids) > Len(call.features[2].input_ids)

\* C3: text is padded on the right only: row i starts with item i's ids, then
\* holds pad_token_id only; the mask row starts with item i's mask, then holds
\* 0 only; the item with the longest input_ids gets no padding
C3_RightPadding ==
  Returned =>
    \A i \in 1..B :
      LET ids == call.features[i].input_ids
          mask == call.features[i].attention_mask
          row == call.ret.input_ids[i]
          mrow == call.ret.attention_mask[i]
      IN /\ Len(row) >= Len(ids)
         /\ \A j \in 1..Len(row) :
              row[j] = IF j <= Len(ids) THEN ids[j] ELSE self.processor.pad_token_id
         /\ Len(mrow) >= Len(mask)
         /\ \A j \in 1..Len(mrow) :
              mrow[j] = IF j <= Len(mask) THEN mask[j] ELSE 0
         /\ Len(ids) = MaxLen => (row = ids /\ mrow = mask)

C3_Witness ==
  /\ Returned /\ B = 2
  /\ Len(call.features[1].input_ids) + 2 = Len(call.features[2].input_ids)
  /\ self.processor.pad_token_id = 0

\* C4: every waveform is brought to exactly T*512 samples: a longer one is cut
\* to its first T*512 samples, a waveform of at most T*512 samples is kept as a
\* prefix and followed by zeros only
C4_AudioLength ==
  Returned =>
    \A i \in 1..B :
      LET w == call.features[i].labels
          a == call.ret.audio[i]
      IN /\ Len(a) = T * 512
         /\ \A j \in 1..Len(a) : a[j] = IF j <= Len(w) THEN w[j] ELSE 0

C4_Witness ==
  /\ Returned /\ B = 2
  /\ Len(call.features[1].labels) > T * 512
  /\ Len(call.features[2].labels) = T * 512 - 1

\* C7: a call changes neither the items it is given nor the collator, and a
\* call on a batch returns the same input_ids, attention_mask and labels shape
\* as the first call on this collator did when that was on the same batch
SameResult(r1, r2) ==
  /\ r1.status = r2.status
  /\ r1.status = "ok" =>
       /\ r1.input_ids = r2.input_ids
       /\ r1.attention_mask = r2.attention_mask
       /\ Len(r1.labels) = Len(r2.labels)
       /\ \A i \in 1..Len(r1.labels) :
            /\ Len(r1.labels[i]) = Len(r2.labels[i])
            /\ \A t \in 1..Len(r1.labels[i]) :
                 Len(r1.labels[i][t]) = Len(r2.labels[i][t])

C9_AlwaysTruncates ==
  Returned =>
    \A i \in 1..B :
      /\ call.ret.frames[i] = T + 1
      /\ call.ret.branch[i] = "truncate"

C9_Witness ==
  /\ Returned /\ B = 2
  /\ Len(call.features[1].labels) = 0
  /\ Len(call.features[2].labels) = 2 * T * 512 + 1

\* the row's audio loads: load_audio returns a waveform for it
Loads(row) == load_audio(row.file, DefaultMaxDuration).kind = "array"

\* the texts of the rows among the first k that load, in the order of the rows
RECURSIVE LoadedTexts(_)
LoadedTexts(k) ==
  IF k = 0 THEN <<>>
  ELSE IF Loads(df[k]) THEN Append(LoadedTexts(k - 1), df[k].Text)
       ELSE LoadedTexts(k - 1)

\* C5: load_audio never raises to its caller; it returns None when the file
\* does not exist, when the loaded audio is empty and when loading or
\* normalizing raises, and a waveform only when the file exists, loading and
\* normalizing succeeded and the loaded array has at least one sample
C5_LoadAudioNeverRaises ==
  loaded.kind = "call" =>
    LET f == loaded.file
        good == f.exists /\ f.decodes /\ f.finite /\ f.samples > 0
    IN /\ loaded.result.kind # "raise"
       /\ pc # "Exception"
       /\ good => (loaded.result.kind = "array" /\ loaded.result.n >= 1)
       /\ ~good => loaded.result = None

C5_Witness ==
  /\ loaded.kind = "call" /\ loaded.result = None
  /\ loaded.file.exists /\ ~loaded.file.decodes
  /\ idx < Len(df) /\ pc = "loop"

\* C6: a row whose audio fails to load is skipped and the loop goes on: the
\* items are, in the order of the rows, exactly one per row whose load_audio
\* result is not None, each with that row's text and samples
C6_OneItemPerLoadedRow ==
  /\ pc \in {"loop", "returned", "ValueError"} =>
       /\ Len(processed_data) = Len(LoadedTexts(idx))
       /\ \A i \in 1..Len(processed_data) : processed_data[i].text = LoadedTexts(idx)[i]
  /\ pc = "returned" =>
       /\ idx = Len(df)
       /\ dataset = processed_data
       /\ \A i \in 1..Len(dataset) :
            \E k \in 1..Len(df) :
              /\ df[k].Text = dataset[i].text
              /\ dataset[i].n_samples = load_audio(df[k].file, DefaultMaxDuration).n

C6_Witness ==
  /\ pc = "returned" /\ Len(df) = 3 /\ Len(dataset) = 2
  /\ Loads(df[1]) /\ ~Loads(df[2]) /\ Loads(df[3])

\* C8: prepare_dataset raises ValueError exactly when no row's audio loaded
\* (an empty table included), only after every row has been attempted; a
\* dataset it returns has at least one item
C8_RaisesIffNothingLoaded ==
  LET none_loaded == \A k \in 1..Len(df) : ~Loads(df[k])
  IN /\ pc = "ValueError" => (idx = Len(df) /\ none_loaded)
     /\ pc = "returned" => (idx = Len(df) /\ ~none_loaded /\ Len(dataset) >= 1)
     /\ pc = "loop" => idx <= Len(df)
     /\ pc \in {"loop", "returned", "ValueError"}

C8_Witness ==
  /\ pc = "ValueError" /\ Len(df) = 2 /\ idx = 2
  /\ ~df[1].file.exists /\ df[2].file.exists

\* C10: as wired by main, every waveform reaching the collator has between 1
\* and 160000 samples, below the target of 512*512 = 262144 samples: the
\* waveform is never cut and is padded by at least 102144 zeros
C10_PipelineNeverTruncates ==
  /\ \A i \in 1..Len(processed_data) :
       processed_data[i].n_samples >= 1 /\ processed_data[i].n_samples <= 160000
  /\ \A i \in 1..Len(fit) :
       /\ fit[i].n_samples >= 1 /\ fit[i].n_samples <= 160000
       /\ fit[i].target = 262144
       /\ ~fit[i].truncated
       /\ fit[i].pad_width >= 102144

C10_Witness ==
  /\ Len(fit) = 2
  /\ fit[1].n_samples = 160000 /\ fit[1].pad_width = 102144
  /\ fit[2].n_samples = 1
  /\ \E k \in 1..Len(df) : df[k].file.samples > 262144 /\ Loads(df[k])
====
